---- MODULE Spec2Model ----
(***************************************************************************)
(* A model of basicsr/archs/codeformer_arch_2.py: the construction of      *)
(* PositionEmbeddingSine, TransformerSALayer and CodeFormer2, and their    *)
(* forward passes.  Tensors are modelled by their shapes and by the        *)
(* dataflow that produced them: a forward pass writes a tape, one node per *)
(* tensor operation, in execution order.                                   *)
(***************************************************************************)
EXTENDS Integers, Sequences, FiniteSets, TLC

VARIABLES model, rng, steps, call, ref, gap, layer, lfwd, penc, pfwd

vars == <<model, rng, steps, call, ref, gap, layer, lfwd, penc, pfwd>>

(***************************************************************************)
(* Bounds of the model.                                                    *)
(***************************************************************************)
MaxBatch == 2
MaxLayers == 2
MaxSteps == 1
NumImages == 2
MaxSeq == 2
MaxHW == 2

(***************************************************************************)
(* Program constants.                                                      *)
(***************************************************************************)
ZChannels == 32
ImageChannels == 3
ImageSize == 256
PosEmbRows == 680
DropoutP_nonzero == 0 + 1
DropoutP == 0
v_patch_nums == <<1, 2, 3, 4, 5, 6, 8, 10, 13, 16>>
Downsample == 16

DimEmbds == {512, 640}
Heads == {8, 7}
\* (dim_embd, codebook_size) of the driver (lines 249, 253), and another
Configs == {<<512, 4096>>, <<640, 1024>>}
LayerCounts == 1..MaxLayers
CheckpointPaths == {"None", "vae.pth", "other_arch.pth"}

(***************************************************************************)
(* Shapes.  A shape is a tuple of naturals; ShapeErr stands for the        *)
(* RuntimeError a tensor operation raises on operands that do not fit.     *)
(***************************************************************************)
ShapeErr == <<0 - 1>>

Max(a, b) == IF a >= b THEN a ELSE b

Last(s) == s[Len(s)]

SetLast(s, d) == [s EXCEPT ![Len(s)] = d]

RECURSIVE SumSeq(_)
SumSeq(s) == IF s = <<>> THEN 0 ELSE s[1] + SumSeq(Tail(s))

\* tensor + tensor: trailing dimensions aligned, each pair equal or one of them 1
BroadcastShape(a, b) ==
  IF a = ShapeErr \/ b = ShapeErr THEN ShapeErr
  ELSE LET n == Max(Len(a), Len(b))
           da(i) == IF i + Len(a) - n >= 1 THEN a[i + Len(a) - n] ELSE 1
           db(i) == IF i + Len(b) - n >= 1 THEN b[i + Len(b) - n] ELSE 1
       IN IF \E i \in 1..n : da(i) # db(i) /\ da(i) # 1 /\ db(i) # 1
          THEN ShapeErr
          ELSE [i \in 1..n |-> IF da(i) = 1 THEN db(i) ELSE da(i)]

\* nn.Linear(in_features, out_features)
LinearShape(s, in_features, out_features) ==
  IF s = ShapeErr \/ Len(s) = 0 THEN ShapeErr
  ELSE IF Last(s) # in_features THEN ShapeErr
  ELSE SetLast(s, out_features)

\* nn.LayerNorm(normalized_shape)
LayerNormShape(s, d) ==
  IF s = ShapeErr \/ Len(s) = 0 THEN ShapeErr
  ELSE IF Last(s) # d THEN ShapeErr
  ELSE s

\* nn.MultiheadAttention(embed_dim, nhead)(q, k, value=v)[0], sequence-first layout
AttentionShape(q, k, v, embed_dim) ==
  IF q = ShapeErr \/ k = ShapeErr \/ v = ShapeErr THEN ShapeErr
  ELSE IF Len(q) # 3 \/ Len(k) # 3 \/ Len(v) # 3 THEN ShapeErr
  ELSE IF q[3] # embed_dim \/ k[3] # embed_dim \/ v[3] # embed_dim THEN ShapeErr
  ELSE IF k[1] # v[1] \/ q[2] # k[2] \/ k[2] # v[2] THEN ShapeErr
  ELSE q

\* F.relu and F.gelu keep the shape; F.glu halves the last dimension, which must be even
ActivationShape(s, fn) ==
  IF s = ShapeErr \/ Len(s) = 0 THEN ShapeErr
  ELSE IF fn = "glu"
       THEN IF Last(s) % 2 # 0 THEN ShapeErr ELSE SetLast(s, Last(s) \div 2)
       ELSE s

\* torch.cat(shapes, dim=1)
CatShape(shapes) ==
  IF shapes = <<>> THEN ShapeErr
  ELSE IF \E i \in 1..Len(shapes) : shapes[i] = ShapeErr \/ Len(shapes[i]) # Len(shapes[1])
       THEN ShapeErr
  ELSE IF Len(shapes[1]) < 2 THEN ShapeErr
  ELSE IF \E i \in 1..Len(shapes) : \E d \in 1..Len(shapes[1]) : d # 2 /\ shapes[i][d] # shapes[1][d]
       THEN ShapeErr
  ELSE [shapes[1] EXCEPT ![2] = SumSeq([i \in 1..Len(shapes) |-> shapes[i][2]])]

\* tensor.permute(dims), dims counted from 0
PermuteShape(s, dims) ==
  IF s = ShapeErr \/ Len(s) # Len(dims) THEN ShapeErr
  ELSE [i \in 1..Len(dims) |-> s[dims[i] + 1]]

(***************************************************************************)
(* Tape nodes.  attr names the module or parameter the operation uses, ver *)
(* the version of its parameters, rng the random draw it consumed (0: none)*)
(* and writes the earlier nodes it modified in place.                      *)
(***************************************************************************)
PKey(mod, idx, sub) == [mod |-> mod, idx |-> idx, sub |-> sub]

NoKey == PKey("", 0, "")

Node(op, args, attr, ver, draw, shape) ==
  [op |-> op, args |-> args, attr |-> attr, ver |-> ver, rng |-> draw,
   shape |-> shape, writes |-> {}]

\* nn.Dropout(p) draws a random mask only in training mode with p > 0
DropoutActive(p, training) == training /\ p > 0

(***************************************************************************)
(* PositionEmbeddingSine                                                   *)
(***************************************************************************)
ScaleNone == "None"

TwoPi == "2*math.pi"

NoEncoder ==
  [status |-> "none", err |-> "", num_pos_feats |-> 0, temperature |-> 0,
   normalize |-> FALSE, scale |-> ScaleNone, arg_normalize |-> FALSE, arg_scale |-> ScaleNone]

PositionEmbeddingSine_init_falsy(num_pos_feats, temperature, normalize, scale) ==
  IF scale # ScaleNone /\ normalize = FALSE
  THEN [NoEncoder EXCEPT !.status = "error", !.err = "ValueError",
                         !.arg_normalize = normalize, !.arg_scale = scale]
  ELSE [status |-> "ok", err |-> "", num_pos_feats |-> num_pos_feats,
        temperature |-> temperature, normalize |-> normalize,
        scale |-> IF scale = ScaleNone \/ scale = "0" THEN TwoPi ELSE scale,
        arg_normalize |-> normalize, arg_scale |-> scale]

PositionEmbeddingSine_init(num_pos_feats, temperature, normalize, scale) ==
  IF scale # ScaleNone /\ normalize = FALSE
  THEN [NoEncoder EXCEPT !.status = "error", !.err = "ValueError",
                         !.arg_normalize = normalize, !.arg_scale = scale]
  ELSE [status |-> "ok", err |-> "", num_pos_feats |-> num_pos_feats,
        temperature |-> temperature, normalize |-> normalize,
        scale |-> IF scale = ScaleNone THEN TwoPi ELSE scale,
        arg_normalize |-> normalize, arg_scale |-> scale]

\* the shape of pos for x of shape (B, C, H, W) and mask = None
PositionEmbeddingSine_forward(enc, xs) ==
  LET n == enc.num_pos_feats
      embed == <<xs[1], xs[3], xs[4]>>
      pos_x == embed \o <<n>>
      sins == SetLast(pos_x, (n + 1) \div 2)
      coss == SetLast(pos_x, n \div 2)
      stacked == IF sins = coss THEN sins \o <<2>> ELSE ShapeErr
      flat == IF stacked = ShapeErr THEN ShapeErr
              ELSE <<stacked[1], stacked[2], stacked[3], stacked[4] * stacked[5]>>
      pos == IF flat = ShapeErr THEN ShapeErr ELSE SetLast(flat, flat[4] + flat[4])
  IN PermuteShape(pos, <<0, 3, 1, 2>>)

PosFeats == {3, 64, 128}
Temperatures == {20, 10000}
Scales == {ScaleNone, "0", "1.0", TwoPi}

NoPosForward == [status |-> "none", x |-> <<>>, out |-> <<>>]

PosConstruct ==
  \E n \in PosFeats, t \in Temperatures, normalize \in BOOLEAN, scale \in Scales :
    /\ penc' = PositionEmbeddingSine_init(n, t, normalize, scale)
    /\ pfwd' = NoPosForward
    /\ UNCHANGED <<model, rng, steps, call, ref, gap, layer, lfwd>>

PosForward ==
  /\ penc.status = "ok"
  /\ \E B \in 1..MaxBatch, H \in 1..MaxHW, W \in 1..MaxHW :
       LET xs == <<B, ImageChannels, H, W>>
           out == PositionEmbeddingSine_forward(penc, xs)
       IN pfwd' = [status |-> IF out = ShapeErr THEN "error" ELSE "ok", x |-> xs, out |-> out]
  /\ UNCHANGED <<model, rng, steps, call, ref, gap, layer, lfwd, penc>>

(***************************************************************************)
(* TransformerSALayer                                                      *)
(***************************************************************************)
DefaultDimMlp == 2048

Activations == {"relu", "gelu", "glu", "tanh", "silu"}

\* the activation name is returned without being looked up
_get_activation_fn_lazy(activation) ==
  [raised |-> FALSE, fn |-> activation]

_get_activation_fn(activation) ==
  IF activation = "relu" THEN [raised |-> FALSE, fn |-> "relu"]
  ELSE IF activation = "gelu" THEN [raised |-> FALSE, fn |-> "gelu"]
  ELSE IF activation = "glu" THEN [raised |-> FALSE, fn |-> "glu"]
  ELSE [raised |-> TRUE, fn |-> ""]

NoLayer ==
  [status |-> "none", err |-> "", embed_dim |-> 0, nhead |-> 0, dim_mlp |-> 0,
   dropout |-> 0, activation |-> "", arg_activation |-> ""]

\* nn.MultiheadAttention asserts that embed_dim is divisible by num_heads
TransformerSALayer_init(embed_dim, nhead, dim_mlp, dropout, activation) ==
  IF embed_dim % nhead # 0
  THEN [NoLayer EXCEPT !.status = "error", !.err = "AssertionError",
                       !.arg_activation = activation]
  ELSE LET act == _get_activation_fn(activation)
       IN IF act.raised
          THEN [NoLayer EXCEPT !.status = "error", !.err = "RuntimeError",
                               !.arg_activation = activation]
          ELSE [status |-> "ok", err |-> "", embed_dim |-> embed_dim, nhead |-> nhead,
                dim_mlp |-> dim_mlp, dropout |-> dropout, activation |-> act.fn,
                arg_activation |-> activation]

LayerSubs == {"self_attn", "linear1", "linear2", "norm1", "norm2"}

LayerParamKeys(l) == {PKey("ft_layers", l, sub) : sub \in LayerSubs}

\* tape operations: the tape t with the node of one tensor operation appended
T_layer_norm(t, x, key, ver, d) ==
  Append(t, Node("layer_norm", <<x>>, key, ver, 0, LayerNormShape(t[x].shape, d)))

T_add(t, a, b) ==
  Append(t, Node("add", <<a, b>>, NoKey, 0, 0, BroadcastShape(t[a].shape, t[b].shape)))

T_self_attn(t, q, k, value, key, ver, draw, embed_dim) ==
  Append(t, Node("self_attn", <<q, k, value>>, key, ver, draw,
                 AttentionShape(t[q].shape, t[k].shape, t[value].shape, embed_dim)))

T_dropout(t, x, key, draw) ==
  Append(t, Node("dropout", <<x>>, key, 0, draw, t[x].shape))

T_linear(t, x, key, ver, in_features, out_features) ==
  Append(t, Node("linear", <<x>>, key, ver, 0,
                 LinearShape(t[x].shape, in_features, out_features)))

T_activation(t, x, l, fn) ==
  Append(t, Node("activation", <<x>>, PKey("activation", l, fn), 0, 0,
                 ActivationShape(t[x].shape, fn)))

T_permute(t, x, dims) ==
  Append(t, Node("permute", <<x>>, NoKey, 0, 0, PermuteShape(t[x].shape, dims)))

\* tensor if pos is None (0) else tensor + pos
with_pos_embed(t, tensor, pos) ==
  IF pos = 0 THEN t ELSE T_add(t, tensor, pos)

\* the position bias is added to the normalized sequence itself, so the values carry it too
TransformerSALayer_forward_biased_values(t, lyr, l, params, tgt, query_pos, training, draw0) ==
  LET d(k) == IF DropoutActive(lyr.dropout, training) THEN draw0 + k ELSE 0
      K(sub) == PKey("ft_layers", l, sub)
      v(sub) == params[K(sub)].ver
      q == IF query_pos = 0 THEN Len(t) + 1 ELSE Len(t) + 2
      t1 == T_layer_norm(t, tgt, K("norm1"), v("norm1"), lyr.embed_dim)
      t2 == with_pos_embed(t1, Len(t) + 1, query_pos)
      t3 == T_self_attn(t2, q, q, q, K("self_attn"), v("self_attn"), d(1), lyr.embed_dim)
      t4 == T_dropout(t3, q + 1, K("dropout1"), d(2))
      t5 == T_add(t4, tgt, q + 2)
      t6 == T_layer_norm(t5, q + 3, K("norm2"), v("norm2"), lyr.embed_dim)
      t7 == T_linear(t6, q + 4, K("linear1"), v("linear1"), lyr.embed_dim, lyr.dim_mlp)
      t8 == T_activation(t7, q + 5, l, lyr.activation)
      t9 == T_dropout(t8, q + 6, K("dropout"), d(3))
      t10 == T_linear(t9, q + 7, K("linear2"), v("linear2"), lyr.dim_mlp, lyr.embed_dim)
      t11 == T_dropout(t10, q + 8, K("dropout2"), d(4))
  IN T_add(t11, q + 3, q + 9)

\* the tape t extended by one block applied to node tgt; the last node is the result
TransformerSALayer_forward(t, lyr, l, params, tgt, query_pos, training, draw0) ==
  LET d(k) == IF DropoutActive(lyr.dropout, training) THEN draw0 + k ELSE 0
      K(sub) == PKey("ft_layers", l, sub)
      v(sub) == params[K(sub)].ver
      \* node Len(t) + 1 is the normalized sequence, node q the queries and keys
      q == IF query_pos = 0 THEN Len(t) + 1 ELSE Len(t) + 2
      \* tgt2 = self.norm1(tgt)
      t1 == T_layer_norm(t, tgt, K("norm1"), v("norm1"), lyr.embed_dim)
      \* q = k = self.with_pos_embed(tgt2, query_pos)
      t2 == with_pos_embed(t1, Len(t) + 1, query_pos)
      \* tgt2 = self.self_attn(q, k, value=tgt2, ...)[0]
      t3 == T_self_attn(t2, q, q, Len(t) + 1, K("self_attn"), v("self_attn"), d(1),
                        lyr.embed_dim)
      \* tgt = tgt + self.dropout1(tgt2)
      t4 == T_dropout(t3, q + 1, K("dropout1"), d(2))
      t5 == T_add(t4, tgt, q + 2)
      \* tgt2 = self.norm2(tgt)
      t6 == T_layer_norm(t5, q + 3, K("norm2"), v("norm2"), lyr.embed_dim)
      \* tgt2 = self.linear2(self.dropout(self.activation(self.linear1(tgt2))))
      t7 == T_linear(t6, q + 4, K("linear1"), v("linear1"), lyr.embed_dim, lyr.dim_mlp)
      t8 == T_activation(t7, q + 5, l, lyr.activation)
      t9 == T_dropout(t8, q + 6, K("dropout"), d(3))
      t10 == T_linear(t9, q + 7, K("linear2"), v("linear2"), lyr.dim_mlp, lyr.embed_dim)
      \* tgt = tgt + self.dropout2(tgt2)
      t11 == T_dropout(t10, q + 8, K("dropout2"), d(4))
  IN T_add(t11, q + 3, q + 9)

\* random draws one block consumes: attention dropout, dropout1, dropout, dropout2
LayerDraws(lyr, training) == IF DropoutActive(lyr.dropout, training) THEN 4 ELSE 0

\* a raised exception ends the call: the tape up to the first failing operation
Failed(t) == \E i \in 1..Len(t) : t[i].shape = ShapeErr

Truncate(t) ==
  IF ~Failed(t) THEN t
  ELSE SubSeq(t, 1, CHOOSE i \in 1..Len(t) :
                      /\ t[i].shape = ShapeErr
                      /\ \A j \in 1..(i - 1) : t[j].shape # ShapeErr)

StandaloneParams == [k \in LayerParamKeys(0) |-> [requires_grad |-> TRUE, ver |-> 0]]

NoLayerForward == [status |-> "none", tgt |-> <<>>, pos |-> FALSE, out |-> <<>>]

LayerConstruct ==
  \E embed_dim \in DimEmbds, nhead \in Heads, activation \in Activations :
    \E dim_mlp \in {2 * embed_dim, DefaultDimMlp} :
      /\ layer' = TransformerSALayer_init(embed_dim, nhead, dim_mlp, DropoutP, activation)
      /\ lfwd' = NoLayerForward
      /\ UNCHANGED <<model, rng, steps, call, ref, gap, penc, pfwd>>

\* the outcome of a forward call that wrote tape t on input tgt
LayerCallRecord(t, tgt, withPos) ==
  [status |-> IF Failed(t) THEN "error" ELSE "ok", tgt |-> tgt, pos |-> withPos,
   out |-> Last(Truncate(t)).shape]

LayerInputs(s, withPos) ==
  <<Node("input", <<>>, PKey("tgt", 0, ""), 0, 0, s)>>
  \o (IF withPos THEN <<Node("input", <<>>, PKey("query_pos", 0, ""), 0, 0, s)>> ELSE <<>>)

LayerForward ==
  /\ layer.status = "ok"
  /\ \E L \in 1..MaxSeq, B \in 1..MaxBatch, withPos \in BOOLEAN :
       lfwd' = LayerCallRecord(
                 TransformerSALayer_forward(LayerInputs(<<L, B, layer.embed_dim>>, withPos),
                                            layer, 0, StandaloneParams, 1,
                                            IF withPos THEN 2 ELSE 0, TRUE, 0),
                 <<L, B, layer.embed_dim>>, withPos)
  /\ UNCHANGED <<model, rng, steps, call, ref, gap, layer, penc, pfwd>>

(***************************************************************************)
(* The inherited tokenizer (VQVAE): its constructor, its checkpoint loader *)
(* and the shapes of its encoder and residual quantizer.                   *)
(***************************************************************************)
TokenizerMods == {"encoder", "decoder", "quantize", "quant_conv", "post_quant_conv"}

TokenizerKeys == {PKey(m, 0, "") : m \in TokenizerMods}

NoHead == [norm |-> 0, in_features |-> 0, out_features |-> 0]

NoModel ==
  [status |-> "none", err |-> "", training |-> FALSE, vocab_size |-> 0, Cvae |-> 0,
   patch_hws |-> <<>>, params |-> <<>>, arg_path |-> "None",
   connect_list |-> <<>>, n_layers |-> 0, dim_embd |-> 0, dim_mlp |-> 0,
   position_emb |-> <<>>, feat_emb |-> <<>>, ft_layers |-> <<>>, idx_pred_layer |-> NoHead]

Raise(o, err) == [o EXCEPT !.status = "error", !.err = err]

\* a freshly registered parameter is trainable
NewParams(keys) == [k \in keys |-> [requires_grad |-> TRUE, ver |-> 0]]

AddParams(params, keys) ==
  [k \in DOMAIN params \cup keys |->
     IF k \in DOMAIN params THEN params[k] ELSE [requires_grad |-> TRUE, ver |-> 0]]

VQVAE_init(vocab_size, z_channels, patch_nums) ==
  [NoModel EXCEPT !.status = "building", !.training = TRUE, !.vocab_size = vocab_size,
                  !.Cvae = z_channels,
                  !.patch_hws = [i \in 1..Len(patch_nums) |-> <<patch_nums[i], patch_nums[i]>>],
                  !.params = NewParams(TokenizerKeys)]

\* self.load_state_dict(torch.load(vqvae_path)): values change, trainable flags do not
load_state_dict(o, vqvae_path) ==
  IF o.status = "error" THEN o
  ELSE IF vqvae_path # "vae.pth" THEN Raise(o, "RuntimeError")
  ELSE [o EXCEPT !.params = [k \in DOMAIN o.params |-> [o.params[k] EXCEPT !.ver = 1]]]

\* encoder, then quant_conv: (B, 3, H, W) -> (B, Cvae, H/16, W/16)
EncoderShape(o, xs) ==
  IF xs = ShapeErr \/ Len(xs) # 4 THEN ShapeErr
  ELSE IF xs[2] # ImageChannels \/ xs[3] % Downsample # 0 \/ xs[4] % Downsample # 0 THEN ShapeErr
  ELSE <<xs[1], o.Cvae, xs[3] \div Downsample, xs[4] \div Downsample>>

\* quantize.f_to_idxBl_or_fhat(lq_feat, to_fhat=False): one (B, ph*pw) index tensor per scale
f_to_idxBl_or_fhat(t, o, lq_feat) ==
  LET f == t[lq_feat].shape
      hw == o.patch_hws
      fits == f # ShapeErr /\ Len(f) = 4 /\ <<f[3], f[4]>> = hw[Len(hw)] /\ f[2] = o.Cvae
  IN t \o [i \in 1..Len(hw) |->
             Node("quant_idx", <<lq_feat>>, PKey("quantize", i - 1, "idx"),
                  o.params[PKey("quantize", 0, "")].ver, 0,
                  IF fits THEN <<f[1], hw[i][1] * hw[i][2]>> ELSE ShapeErr)]

\* self.quant_conv(self.encoder(x)): nodes 1 (x), 2 and 3
Encode(o, x) ==
  << Node("input", <<>>, PKey("x", x.id, ""), 0, 0, x.shape),
     Node("encoder", <<1>>, PKey("encoder", 0, ""), o.params[PKey("encoder", 0, "")].ver, 0,
          EncoderShape(o, x.shape)),
     Node("quant_conv", <<2>>, PKey("quant_conv", 0, ""),
          o.params[PKey("quant_conv", 0, "")].ver, 0, EncoderShape(o, x.shape)) >>

(***************************************************************************)
(* CodeFormer2.__init__                                                    *)
(***************************************************************************)
DefaultConnectList == <<"32", "64", "128", "256">>

FixModules == {"decoder", "quantize", "post_quant_conv"}

\* the loop over self.parameters() is missing: only fix_modules get frozen
FreezeAll_skipped(o) == o

\* for param in self.parameters(): param.requires_grad = False
FreezeAll(o) ==
  IF o.status = "error" THEN o
  ELSE [o EXCEPT !.params = [k \in DOMAIN o.params |->
                               [o.params[k] EXCEPT !.requires_grad = FALSE]]]

\* for module in fix_modules: for param in getattr(self, module).parameters(): ...
FreezeFixModules(o) ==
  IF o.status = "error" THEN o
  ELSE [o EXCEPT !.params = [k \in DOMAIN o.params |->
                               IF k.mod \in FixModules
                               THEN [o.params[k] EXCEPT !.requires_grad = FALSE]
                               ELSE o.params[k]]]

SetAttributes(o, connect_list, n_layers, dim_embd) ==
  IF o.status = "error" THEN o
  ELSE [o EXCEPT !.connect_list = connect_list, !.n_layers = n_layers,
                 !.dim_embd = dim_embd, !.dim_mlp = dim_embd * 2]

\* self.position_emb = nn.Parameter(torch.zeros(680, self.dim_embd))
CreatePositionEmb(o) ==
  IF o.status = "error" THEN o
  ELSE [o EXCEPT !.position_emb = <<PosEmbRows, o.dim_embd>>,
                 !.params = AddParams(o.params, {PKey("position_emb", 0, "")})]

\* one table per entry of connect_list instead of one per scale
CreateFeatEmb_per_connect(o, codebook_size) ==
  IF o.status = "error" THEN o
  ELSE [o EXCEPT !.feat_emb = [i \in 1..Len(o.connect_list) |->
                                 [num_embeddings |-> codebook_size,
                                  embedding_dim |-> o.dim_embd]],
                 !.params = AddParams(o.params,
                                      {PKey("feat_emb", i - 1, "weight") :
                                         i \in 1..Len(o.connect_list)})]

\* nn.ModuleList(nn.Embedding(codebook_size, self.dim_embd) for (ph, pw) in self.patch_hws)
CreateFeatEmb(o, codebook_size) ==
  IF o.status = "error" THEN o
  ELSE [o EXCEPT !.feat_emb = [i \in 1..Len(o.patch_hws) |->
                                 [num_embeddings |-> codebook_size,
                                  embedding_dim |-> o.dim_embd]],
                 !.params = AddParams(o.params,
                                      {PKey("feat_emb", i - 1, "weight") :
                                         i \in 1..Len(o.patch_hws)})]

\* nn.Sequential(*[TransformerSALayer(...) for _ in range(self.n_layers)])
CreateFtLayers(o, n_head) ==
  IF o.status = "error" THEN o
  ELSE LET lyr == TransformerSALayer_init(o.dim_embd, n_head, o.dim_mlp, DropoutP, "gelu")
       IN IF o.n_layers > 0 /\ lyr.status = "error" THEN Raise(o, lyr.err)
          ELSE [o EXCEPT !.ft_layers = [l \in 1..o.n_layers |-> lyr],
                         !.params = AddParams(o.params,
                                              UNION {LayerParamKeys(l - 1) : l \in 1..o.n_layers})]

HeadKeys == {PKey("idx_pred_layer", 0, "norm"), PKey("idx_pred_layer", 1, "weight")}

\* the head projects back onto the embedding width
CreateIdxPredLayer_to_embd(o, codebook_size) ==
  IF o.status = "error" THEN o
  ELSE [o EXCEPT !.idx_pred_layer = [norm |-> o.dim_embd, in_features |-> o.dim_embd,
                                     out_features |-> o.dim_embd],
                 !.params = AddParams(o.params, HeadKeys)]

\* nn.Sequential(nn.LayerNorm(dim_embd), nn.Linear(dim_embd, codebook_size, bias=False))
CreateIdxPredLayer(o, codebook_size) ==
  IF o.status = "error" THEN o
  ELSE [o EXCEPT !.idx_pred_layer = [norm |-> o.dim_embd, in_features |-> o.dim_embd,
                                     out_features |-> codebook_size],
                 !.params = AddParams(o.params, HeadKeys)]

\* a constructor that raised returns no object
Constructed(o, vqvae_path) ==
  IF o.status = "error"
  THEN [NoModel EXCEPT !.status = "error", !.err = o.err, !.arg_path = vqvae_path]
  ELSE [o EXCEPT !.status = "ok", !.arg_path = vqvae_path]

CodeFormer2_init(dim_embd, n_head, n_layers, codebook_size, connect_list, vqvae_path) ==
  LET s0 == VQVAE_init(codebook_size, ZChannels, v_patch_nums)
      s1 == IF vqvae_path # "None" THEN load_state_dict(s0, vqvae_path) ELSE s0
      s2 == FreezeFixModules(FreezeAll(s1))
      s3 == SetAttributes(s2, connect_list, n_layers, dim_embd)
      s4 == CreateFeatEmb(CreatePositionEmb(s3), codebook_size)
      s5 == CreateIdxPredLayer(CreateFtLayers(s4, n_head), codebook_size)
  IN Constructed(s5, vqvae_path)

(***************************************************************************)
(* CodeFormer2.forward                                                     *)
(***************************************************************************)
\* nn.Embedding(num_embeddings, embedding_dim)(idx)
EmbeddingShape(s, emb) ==
  IF s = ShapeErr THEN ShapeErr ELSE s \o <<emb.embedding_dim>>

\* every level is looked up in the first table
EmbedAll_first_table(t, o, idx_list) ==
  t \o [i \in 1..Len(idx_list) |->
         Node("embedding", <<idx_list[i]>>, PKey("feat_emb", 0, "weight"),
              o.params[PKey("feat_emb", 0, "weight")].ver, 0,
              EmbeddingShape(t[idx_list[i]].shape, o.feat_emb[1]))]

\* for i, idx in enumerate(idx_list): idx_embed_all.append(self.feat_emb[i](idx))
EmbedAll(t, o, idx_list) ==
  t \o [i \in 1..Len(idx_list) |->
         IF i > Len(o.feat_emb)
         THEN Node("IndexError", <<idx_list[i]>>, PKey("feat_emb", i - 1, "weight"), 0, 0, ShapeErr)
         ELSE Node("embedding", <<idx_list[i]>>, PKey("feat_emb", i - 1, "weight"),
                   o.params[PKey("feat_emb", i - 1, "weight")].ver, 0,
                   EmbeddingShape(t[idx_list[i]].shape, o.feat_emb[i]))]

\* for layer in self.ft_layers: query_emb = layer(query_emb, query_pos=pos_emb)
\* (query_emb is the last node of the tape)
RECURSIVE RunLayers(_, _, _, _, _)
RunLayers(t, o, l, pos_emb, draw0) ==
  IF l > Len(o.ft_layers) THEN t
  ELSE RunLayers(TransformerSALayer_forward(t, o.ft_layers[l], l - 1, o.params,
                                            Len(t), pos_emb, o.training, draw0),
                 o, l + 1, pos_emb, draw0 + LayerDraws(o.ft_layers[l], o.training))

ForwardDraws(o) ==
  SumSeq([l \in 1..Len(o.ft_layers) |-> LayerDraws(o.ft_layers[l], o.training)])

\* pos_emb = self.position_emb.unsqueeze(1).repeat(1, x.shape[0], 1), x being the latent
PosEmb(t, o, x) ==
  LET pe == o.position_emb
      B == IF t[x].shape = ShapeErr THEN 0 ELSE t[x].shape[1]
  IN t \o << Node("param", <<>>, PKey("position_emb", 0, ""),
                  o.params[PKey("position_emb", 0, "")].ver, 0, pe),
             Node("unsqueeze", <<Len(t) + 1>>, NoKey, 0, 0, <<pe[1], 1, pe[2]>>),
             Node("repeat", <<Len(t) + 2>>, NoKey, 0, 0, <<pe[1], B, pe[2]>>) >>

\* idx_embed = torch.cat(idx_embed_all, dim=1).permute(1, 0, 2)
CatPermute(t, embeds) ==
  T_permute(Append(t, Node("cat", embeds, NoKey, 0, 0,
                           CatShape([i \in 1..Len(embeds) |-> t[embeds[i]].shape]))),
            Len(t) + 1, <<1, 0, 2>>)

\* logits = self.idx_pred_layer(query_emb); logits = logits.permute(1, 0, 2)
idx_pred_layer(t, o) ==
  T_permute(T_linear(T_layer_norm(t, Len(t), PKey("idx_pred_layer", 0, "norm"),
                                  o.params[PKey("idx_pred_layer", 0, "norm")].ver,
                                  o.idx_pred_layer.norm),
                     Len(t) + 1, PKey("idx_pred_layer", 1, "weight"),
                     o.params[PKey("idx_pred_layer", 1, "weight")].ver,
                     o.idx_pred_layer.in_features, o.idx_pred_layer.out_features),
            Len(t) + 2, <<1, 0, 2>>)

\* the latent and the logits change places
ForwardReturn_swapped(logits, lq_feat) == <<lq_feat, logits>>

\* return logits, lq_feat
ForwardReturn(logits, lq_feat) == <<logits, lq_feat>>

\* what a call that wrote tape t hands back: nothing when an operation raised
Returned(t, lq_feat) ==
  [tape |-> Truncate(t),
   ret |-> IF Failed(t) THEN <<>> ELSE ForwardReturn(Len(t), lq_feat)]

\* the tape of one call and the nodes it returns; w, detach_16, code_only, adain are not read
CodeFormer2_forward(o, x, w, detach_16, code_only, adain, draw0) ==
  LET n == Len(o.patch_hws)
      lq_feat == 3
      idx_list == [i \in 1..n |-> lq_feat + i]
      pos_emb == lq_feat + n + 3
      embeds == [i \in 1..n |-> pos_emb + i]
      t1 == Encode(o, x)
      t2 == f_to_idxBl_or_fhat(t1, o, lq_feat)
      t3 == PosEmb(t2, o, lq_feat)
      t4 == EmbedAll(t3, o, idx_list)
      t5 == CatPermute(t4, embeds)
      t6 == RunLayers(t5, o, 1, pos_emb, draw0)
  IN Returned(idx_pred_layer(t6, o), lq_feat)

(***************************************************************************)
(* The callers: construction, forward calls, optimizer steps.              *)
(***************************************************************************)
\* image i is a batch of BatchOf(i) samples: distinct images share a batch size
BatchOf(i) == ((i - 1) % MaxBatch) + 1

Images ==
  {[id |-> i, shape |-> <<BatchOf(i), ImageChannels, ImageSize, ImageSize>>] :
     i \in 1..NumImages}

NoImage == [id |-> 0, shape |-> <<>>]

DefaultArgs == [w |-> "0", detach_16 |-> TRUE, code_only |-> FALSE, adain |-> FALSE]

ReservedArgs ==
  {DefaultArgs,
   [w |-> "0.1", detach_16 |-> FALSE, code_only |-> TRUE, adain |-> TRUE]}

NoCall ==
  [status |-> "none", x |-> NoImage, args |-> DefaultArgs, steps |-> 0,
   tape |-> <<>>, ret |-> <<>>]

Construct ==
  /\ model.status = "none"
  /\ \E cfg \in Configs, n_head \in Heads, n_layers \in LayerCounts :
       \E vqvae_path \in CheckpointPaths :
         model' = CodeFormer2_init(cfg[1], n_head, n_layers, cfg[2],
                                   DefaultConnectList, vqvae_path)
  /\ UNCHANGED <<rng, steps, call, ref, gap, layer, lfwd, penc, pfwd>>

CallRecord(r, x, a, n) ==
  [status |-> IF r.ret = <<>> THEN "error" ELSE "ok", x |-> x, args |-> a,
   steps |-> n, tape |-> r.tape, ret |-> r.ret]

\* one call of forward; ref keeps any one earlier call to compare later ones with
Forward ==
  /\ model.status = "ok"
  /\ \E x \in Images, a \in ReservedArgs, keep \in BOOLEAN :
       /\ call' = CallRecord(CodeFormer2_forward(model, x, a.w, a.detach_16, a.code_only,
                                                 a.adain, rng), x, a, steps)
       /\ rng' = rng + ForwardDraws(model)
       /\ ref' = IF keep THEN call' ELSE ref
       /\ gap' = IF keep \/ ref.status = "none" THEN 0
                 ELSE IF gap < 2 THEN gap + 1 ELSE gap
  /\ UNCHANGED <<model, steps, layer, lfwd, penc, pfwd>>

\* an optimizer step updates exactly the parameters marked trainable
TrainStep ==
  /\ model.status = "ok"
  /\ steps < MaxSteps
  /\ steps' = steps + 1
  /\ model' = [model EXCEPT !.params =
                 [k \in DOMAIN model.params |->
                    IF model.params[k].requires_grad
                    THEN [model.params[k] EXCEPT !.ver = @ + 1]
                    ELSE model.params[k]]]
  /\ UNCHANGED <<rng, call, ref, gap, layer, lfwd, penc, pfwd>>

Init ==
  /\ model = NoModel
  /\ rng = 0
  /\ steps = 0
  /\ call = NoCall
  /\ ref = NoCall
  /\ gap = 0
  /\ layer = NoLayer
  /\ lfwd = NoLayerForward
  /\ penc = NoEncoder
  /\ pfwd = NoPosForward

Next == Construct \/ Forward \/ TrainStep

Spec == Init /\ [][Next]_vars

NextLayer == LayerConstruct \/ LayerForward

SpecLayer == Init /\ [][NextLayer]_vars

NextPos == PosConstruct \/ PosForward

SpecPos == Init /\ [][NextPos]_vars

(***************************************************************************)
(* What the nodes of a tape hold, row by row.  A row of an index tensor is *)
(* the token the quantizer put at one position of one scale; a row of an   *)
(* embedded tensor is the row of the table that the token selects.         *)
(***************************************************************************)
\* RowAt(t, i, b, j): row j of sample b of node i, a tensor of shape (B, n, ...)
RECURSIVE RowAt(_, _, _, _), CatRowAt(_, _, _, _, _)
RowAt(t, i, b, j) ==
  CASE t[i].op = "quant_idx" -> [scale |-> t[i].attr.idx, sample |-> b, pos |-> j]
    [] t[i].op = "embedding" -> [table |-> t[i].attr.idx, tok |-> RowAt(t, t[i].args[1], b, j)]
    [] t[i].op = "cat" -> CatRowAt(t, t[i].args, 1, b, j)

\* torch.cat(dim=1): row j lies in the first part it fits in
CatRowAt(t, parts, k, b, j) ==
  IF j <= t[parts[k]].shape[2] THEN RowAt(t, parts[k], b, j)
  ELSE CatRowAt(t, parts, k + 1, b, j - t[parts[k]].shape[2])

\* node i = x.permute(1, 0, 2): row [s][b] of node i is row [b][s] of x
PermutedRowAt(t, i, s, b) == RowAt(t, t[i].args[1], b, s)

NodesWithOp(t, op) == {i \in 1..Len(t) : t[i].op = op}

\* the number of tokens of scales 1..i
Cumulative(hws, i) == SumSeq([k \in 1..i |-> hws[k][1] * hws[k][2]])

Supported == {"relu", "gelu", "glu"}

(***************************************************************************)
(* Claims                                                                  *)
(***************************************************************************)

C3_PyramidOrder ==
  call.status = "ok" =>
    LET t == call.tape
        hws == model.patch_hws
    IN \A c \in NodesWithOp(t, "cat") :
            /\ t[c + 1].op = "permute" /\ t[c + 1].args = <<c>>
            /\ t[c + 1].shape[1] = Cumulative(hws, Len(hws))
            /\ \A i \in 1..Len(hws) :
                 LET start == Cumulative(hws, i - 1)
                 IN \A j \in 1..(hws[i][1] * hws[i][2]) : \A b \in 1..call.x.shape[1] :
                      PermutedRowAt(t, c + 1, start + j, b) =
                        [table |-> i - 1, tok |-> [scale |-> i - 1, sample |-> b, pos |-> j]]

C3_Witness ==
  /\ call.status = "ok"
  /\ call.x.shape[1] = 2
  /\ \E c \in NodesWithOp(call.tape, "cat") :
       /\ Len(call.tape[c].args) = 10
       /\ PermutedRowAt(call.tape, c + 1, 6, 2) =
            [table |-> 2, tok |-> [scale |-> 2, sample |-> 2, pos |-> 1]]

\* C4: forward returns (logits, latent) in that order; latent is the node
\* quant_conv(encoder(x)) of step 1 and no later operation writes to it.
C4_ReturnsLatent ==
  call.status = "ok" =>
    LET t == call.tape
    IN /\ Len(call.ret) = 2
       /\ LET logits == call.ret[1]
              latent == call.ret[2]
          IN /\ t[latent].op = "quant_conv"
             /\ t[t[latent].args[1]].op = "encoder"
             /\ t[t[t[latent].args[1]].args[1]].attr = PKey("x", call.x.id, "")
             /\ \A j \in 1..Len(t) : latent \notin t[j].writes
             /\ logits = Len(t)
             /\ t[logits].op = "permute"
             /\ t[t[logits].args[1]].attr = PKey("idx_pred_layer", 1, "weight")

C4_Witness ==
  /\ call.status = "ok"
  /\ call.ret = <<Len(call.tape), 3>>
  /\ call.tape[3].shape = <<call.x.shape[1], 32, 16, 16>>
  /\ Len(call.tape) > 3

\* C5: two forward calls on the same image batch with the same parameters
\* return the same (logits, latent), whatever calls happened in between and
\* whatever w, detach_16, code_only and adain were.
C5_Deterministic ==
  (ref.status # "none" /\ call.status # "none" /\ ref.x = call.x /\ ref.steps = call.steps)
    => /\ ref.status = call.status
       /\ ref.ret = call.ret
       /\ ref.tape = call.tape

C5_Witness ==
  /\ ref.status = "ok"
  /\ call.status = "ok"
  /\ ref.x = call.x
  /\ ref.steps = call.steps
  /\ ref.args # call.args
  /\ gap = 2

C7_ShapePreserved ==
  lfwd.status # "none" => (lfwd.status = "ok" /\ lfwd.out = lfwd.tgt)

\* C8: constructing a TransformerSALayer with an unsupported activation
\* name raises at construction and yields no block; no forward call runs on
\* a block whose activation is unsupported.
C8_UnsupportedActivation ==
  /\ (layer.status # "none" /\ layer.arg_activation \notin Supported) =>
       /\ layer.status = "error"
       /\ layer.err \in {"RuntimeError", "AssertionError"}
       /\ layer.activation = ""
  /\ lfwd.status # "none" =>
       (layer.status = "ok" /\ layer.activation \in Supported)

C8_Witness ==
  /\ layer.status = "error"
  /\ layer.err = "RuntimeError"
  /\ layer.arg_activation = "tanh"

\* C9: PositionEmbeddingSine with a scale and normalize=False raises at
\* construction; every other combination constructs, with the scale given,
\* or 2*pi when none is given.
C9_ScaleNeedsNormalize ==
  penc.status # "none" =>
    IF penc.arg_scale # ScaleNone /\ ~penc.arg_normalize
    THEN penc.status = "error" /\ penc.err = "ValueError" /\ penc.num_pos_feats = 0
    ELSE /\ penc.status = "ok"
         /\ penc.scale = (IF penc.arg_scale = ScaleNone THEN "2*math.pi" ELSE penc.arg_scale)

C9_Witness ==
  /\ penc.status = "error"
  /\ penc.err = "ValueError"
  /\ penc.arg_scale = "0"
  /\ ~penc.arg_normalize

\* C10: the sequence passes through exactly n_layers blocks in order, each
\* given the same position embedding broadcast over the batch; in a block
\* the bias is added only to the normalized sequence that forms queries and
\* keys, the values are the normalized sequence without it, and both
\* residual sums are onto the un-normalized stream.
C10_AttentionStack ==
  call.status = "ok" =>
    LET t == call.tape
        A == NodesWithOp(t, "self_attn")
        Arg(i, k) == t[i].args[k]
    IN /\ Cardinality(A) = model.n_layers
       /\ \A pos \in NodesWithOp(t, "repeat") :
            /\ t[Arg(pos, 1)].op = "unsqueeze"
            /\ t[Arg(Arg(pos, 1), 1)].attr = PKey("position_emb", 0, "")
            /\ t[pos].shape[2] = call.x.shape[1]
            \* the bias enters nowhere but the queries and keys
            /\ \A j \in 1..Len(t) : (\E k \in 1..Len(t[j].args) : Arg(j, k) = pos) =>
                 \E a \in A : Arg(a, 1) = j /\ Arg(a, 2) = j /\ Arg(a, 3) # j
            /\ \A a \in A :
                 LET l == t[a].attr.idx
                     q == Arg(a, 1)
                     v == Arg(a, 3)
                     tgt == Arg(v, 1)
                     r1 == a + 2
                     r2 == a + 9
                 IN /\ l = Cardinality({a2 \in A : a2 < a})
                    /\ Arg(a, 2) = q
                    /\ t[q].op = "add" /\ t[q].args = <<v, pos>>
                    /\ t[v].op = "layer_norm" /\ t[v].attr = PKey("ft_layers", l, "norm1")
                    \* the block's input: the token sequence, or the block before
                    /\ IF l = 0 THEN t[tgt].op = "permute" /\ t[Arg(tgt, 1)].op = "cat"
                       ELSE \E a0 \in A : t[a0].attr.idx = l - 1 /\ tgt = a0 + 9
                    \* tgt = tgt + dropout1(attention)
                    /\ t[r1].op = "add" /\ Arg(r1, 1) = tgt
                    /\ t[Arg(r1, 2)].op = "dropout" /\ t[Arg(r1, 2)].args = <<a>>
                    \* tgt = tgt + dropout2(linear2(dropout(activation(linear1(norm2(tgt))))))
                    /\ t[r2].op = "add" /\ Arg(r2, 1) = r1
                    /\ t[Arg(r2, 2)].op = "dropout"
                    /\ t[Arg(Arg(r2, 2), 1)].attr = PKey("ft_layers", l, "linear2")
                    /\ t[r1 + 1].op = "layer_norm" /\ t[r1 + 1].args = <<r1>>
                    /\ t[r1 + 1].attr = PKey("ft_layers", l, "norm2")
                    /\ t[r1 + 2].attr = PKey("ft_layers", l, "linear1")
                    /\ t[r1 + 2].args = <<r1 + 1>>
                    \* the last block feeds the prediction head
                    /\ l = model.n_layers - 1 =>
                         (t[r2 + 1].attr = PKey("idx_pred_layer", 0, "norm")
                          /\ t[r2 + 1].args = <<r2>>)

C10_Witness ==
  /\ call.status = "ok"
  /\ model.n_layers = 2
  /\ Cardinality(NodesWithOp(call.tape, "self_attn")) = 2
  /\ Cardinality(NodesWithOp(call.tape, "repeat")) = 1

====
